---- MODULE Spec2Model ----
(***************************************************************************)
(* watchproc: the periodic render loop (main goroutine), the keystroke     *)
(* listener goroutine and the signal listener goroutine of                 *)
(* main_watchproc.go, with the shared display state they touch             *)
(* (paused, lastProcs, lastTermWidth, lastTermHeight, displayMu, exitOnce) *)
(* and the pure helpers the render cycle calls (getProcesses' filter,      *)
(* sortProcesses, calcColWidths).                                          *)
(*                                                                         *)
(* Strings are tuples of byte codes; CPU percentages are in tenths of a    *)
(* percent, memory percentages in hundredths, the refresh interval in      *)
(* tenths of a second.                                                     *)
(***************************************************************************)
EXTENDS Integers, Sequences, FiniteSets, TLC

VARIABLES
    cfg,            \* the parsed flags: interval, pattern, exact, sortBy, descOrder, topN
    pc,             \* position of each goroutine
    paused,         \* int32, accessed atomically
    lastProcs,      \* last published snapshot
    lastTermWidth,
    lastTermHeight,
    displayMu,      \* "free" or the goroutine holding the mutex
    exitOnce,       \* "idle" or the goroutine running the once-function
    sigChan,        \* number of signals buffered in sigChan (capacity 1)
    key,            \* the key listener's local `key` until the switch has dispatched on it, else 0
    dProcs,         \* display(): local procs, per calling goroutine
    dErr,           \* display(): err != nil
    dFirst,         \* display(): parameter firstRun
    dResized,       \* display(): local terminalResized
    snap,           \* local `snapshot` of the pause branch and of handleExit
    consoleMode,    \* setupConsole's output mode is in effect (not yet restored)
    rawMode,        \* terminal is in cbreak/-echo mode
    altScreen,      \* the last alternate-screen escape written was ESC[?1049h
    exited,         \* os.Exit was called
    exitCode,       \* its status
    teardownLog,    \* side effects performed inside exitOnce.Do, in order
    lastGood,       \* history: <<procs, width, height>> published by the last successful cycle
    cycleFailed,    \* history: the main goroutine's last completed display() had failed
    pausedAtKey,    \* history: value of paused when the current key was read
    tablesShown,    \* history: static tables printed since the alternate screen was last left
    pure            \* harness for checking a pure function on bounded inputs

vars == <<cfg, pc, paused, lastProcs, lastTermWidth, lastTermHeight, displayMu,
          exitOnce, sigChan, key, dProcs, dErr, dFirst, dResized, snap, consoleMode,
          rawMode, altScreen, exited, exitCode, teardownLog, lastGood, cycleFailed,
          pausedAtKey, tablesShown, pure>>

shared == <<lastProcs, lastTermWidth, lastTermHeight>>
dLocals == <<dProcs, dErr, dFirst, dResized>>
termVars == <<consoleMode, rawMode, altScreen>>
exitVars == <<exited, exitCode, teardownLog>>
history == <<lastGood, cycleFailed, pausedAtKey, tablesShown>>

Tasks == {"main", "key", "sig"}
DisplayTasks == {"main", "key"}
ExitTasks == {"key", "sig"}

----------------------------------------------------------------------------
(* Strings as byte tuples *)

ToLowerByte(b) == IF b >= 65 /\ b <= 90 THEN b + 32 ELSE b

ToLower(s) == [i \in 1..Len(s) |-> ToLowerByte(s[i])]

Contains(s, sub) ==
    \E i \in 0..(Len(s) - Len(sub)) : SubSeq(s, i + 1, i + Len(sub)) = sub

RECURSIVE StrLess(_, _)
StrLess(a, b) ==
    IF Len(b) = 0 THEN FALSE
    ELSE IF Len(a) = 0 THEN TRUE
    ELSE IF Head(a) # Head(b) THEN Head(a) < Head(b)
    ELSE StrLess(Tail(a), Tail(b))

----------------------------------------------------------------------------
(* calcColWidths *)

fixedWidth == 59
minName == 12
minCreated == 10
minUser == 8
maxName == 30
maxCreated == 20

\* Go's integer division truncates toward zero
Quot(a, b) == IF a >= 0 THEN a \div b ELSE -((-a) \div b)

calcColWidths_noFloor(termCols) ==
    LET remaining == termCols - fixedWidth
        n0 == Quot(remaining * 45, 100)
        n1 == IF n0 > maxName THEN maxName ELSE n0
        nameW == IF n1 < minName THEN minName ELSE n1
        c0 == Quot(remaining * 30, 100)
        c1 == IF c0 > maxCreated THEN maxCreated ELSE c0
        createdW == IF c1 < minCreated THEN minCreated ELSE c1
        u0 == remaining - nameW - createdW
        userW == IF u0 < minUser THEN minUser ELSE u0
    IN [name |-> nameW, created |-> createdW, user |-> userW, total |-> termCols]

calcColWidths(termCols) ==
    LET floor == fixedWidth + minName + minCreated + minUser
        cols == IF termCols < floor THEN floor ELSE termCols
        remaining == cols - fixedWidth
        n0 == Quot(remaining * 45, 100)
        n1 == IF n0 > maxName THEN maxName ELSE n0
        nameW == IF n1 < minName THEN minName ELSE n1
        c0 == Quot(remaining * 30, 100)
        c1 == IF c0 > maxCreated THEN maxCreated ELSE c0
        createdW == IF c1 < minCreated THEN minCreated ELSE c1
        u0 == remaining - nameW - createdW
        userW == IF u0 < minUser THEN minUser ELSE u0
    IN [name |-> nameW, created |-> createdW, user |-> userW, total |-> cols]

----------------------------------------------------------------------------
(* printHeader: the title line, as the plain text whose length is compared  *)
(* with the layout's total width                                           *)

RECURSIVE Itoa(_)
\* %d of a non-negative integer
Itoa(n) == IF n < 10 THEN <<48 + n>> ELSE Itoa(n \div 10) \o <<48 + (n % 10)>>

\* %02d of a value below 100
Pad2(n) == <<48 + (n \div 10), 48 + (n % 10)>>

\* elapsed time d in whole seconds: h, m and s of formatElapsed
formatElapsed(d) ==
    LET h == d \div 3600
        m == (d \div 60) % 60
        s == d % 60
    IN IF h > 0 THEN Itoa(h) \o <<104>> \o Pad2(m) \o <<109>> \o Pad2(s) \o <<115>>
       ELSE IF m > 0 THEN Itoa(m) \o <<109>> \o Pad2(s) \o <<115>>
       ELSE Itoa(s) \o <<115>>

formatElapsedShort(d) ==
    LET h == d \div 3600
        m == (d \div 60) % 60
        s == d % 60
    IN IF h > 0 THEN Itoa(h) \o <<104>> \o Pad2(m) \o <<109>>
       ELSE IF m > 0 THEN Itoa(m) \o <<109>> \o Pad2(s) \o <<115>>
       ELSE Itoa(s) \o <<115>>

\* %.1f of an interval held in tenths of a second
FormatInterval(iv) == Itoa(iv \div 10) \o <<46, 48 + (iv % 10)>>

\* the literal parts of printHeader's format strings
TxtWatchProc == <<87, 97, 116, 99, 104, 80, 114, 111, 99, 32, 91>>    \* "WatchProc ["
TxtPattern == <<93, 32, 124, 32, 80, 97, 116, 116, 101, 114, 110, 58, 32>>    \* "] | Pattern: "
TxtInterval == <<32, 124, 32, 73, 110, 116, 101, 114, 118, 97, 108, 58, 32>>    \* " | Interval: "
TxtSecFound == <<115, 32, 124, 32, 70, 111, 117, 110, 100, 58, 32>>    \* "s | Found: "
TxtProcesses == <<32, 112, 114, 111, 99, 101, 115, 115, 101, 115>>    \* " processes"
TxtFound == <<32, 124, 32, 70, 111, 117, 110, 100, 58, 32>>    \* " | Found: "
TxtP == <<93, 32, 124, 32, 80, 58>>    \* "] | P:"
TxtMinimal == <<87, 97, 116, 99, 104, 80, 114, 111, 99, 32, 124, 32>>    \* "WatchProc | "

\* the five title texts of printHeader, most detailed first, without colours
Title(v, pattern, iv, count, d) ==
    LET patDisplay == IF pattern = <<>> THEN <<42>> ELSE pattern
        head == TxtWatchProc \o formatElapsed(d) \o TxtPattern \o patDisplay
    IN CASE v = 1 -> head \o TxtInterval \o FormatInterval(iv) \o TxtSecFound
                        \o Itoa(count) \o TxtProcesses
         [] v = 2 -> head \o TxtInterval \o FormatInterval(iv) \o TxtSecFound \o Itoa(count)
         [] v = 3 -> head \o TxtFound \o Itoa(count)
         [] v = 4 -> TxtWatchProc \o formatElapsedShort(d) \o TxtP \o patDisplay
                        \o TxtFound \o Itoa(count)
         [] v = 5 -> TxtMinimal \o Itoa(count)

\* a chain that goes from the third text straight to the minimal one
printHeader_noAbbrev(pattern, iv, count, cw, d) ==
    LET w == cw.total
        v == IF Len(Title(1, pattern, iv, count, d)) <= w THEN 1
             ELSE IF Len(Title(2, pattern, iv, count, d)) <= w THEN 2
             ELSE IF Len(Title(3, pattern, iv, count, d)) <= w THEN 3
             ELSE 5
    IN [variant |-> v, title |-> Title(v, pattern, iv, count, d), rule |-> w]

\* the if / else-if chain of printHeader over w := cw.total, and the rule of
\* w dashes under the title
printHeader(pattern, iv, count, cw, d) ==
    LET w == cw.total
        v == IF Len(Title(1, pattern, iv, count, d)) <= w THEN 1
             ELSE IF Len(Title(2, pattern, iv, count, d)) <= w THEN 2
             ELSE IF Len(Title(3, pattern, iv, count, d)) <= w THEN 3
             ELSE IF Len(Title(4, pattern, iv, count, d)) <= w THEN 4
             ELSE 5
    IN [variant |-> v, title |-> Title(v, pattern, iv, count, d), rule |-> w]

----------------------------------------------------------------------------
(* getProcesses: the name filter and the ProcessInfo built per process *)

NameMatches(name, pattern, exactMatch) ==
    \/ pattern = <<>>
    \/ /\ exactMatch
       /\ ToLower(name) = ToLower(pattern)
    \/ /\ ~exactMatch
       /\ Contains(ToLower(name), ToLower(pattern))

ProcessInfo(p) ==
    [PID |-> p.Pid, Name |-> p.Name, CreateTime |-> p.CreateTime,
     CPUPercent |-> p.CPU, MemPercent |-> p.Mem,
     Status |-> IF p.CPU > 1 THEN "active" ELSE "idle"]

getProcesses(table, pattern, exactMatch) ==
    LET kept == SelectSeq(table,
                    LAMBDA p : p.NameOk /\ NameMatches(p.Name, pattern, exactMatch))
    IN [i \in 1..Len(kept) |-> ProcessInfo(kept[i])]

----------------------------------------------------------------------------
(* sortProcesses: sort.Slice on at most 12 elements is an insertion sort    *)
(* driven by the comparison closure                                        *)

\* a comparison closure that forgets the direction
Less_ignoreDesc(sortBy, desc, a, b) ==
    CASE sortBy = "cpu" -> a.CPUPercent < b.CPUPercent
      [] sortBy = "mem" -> a.MemPercent < b.MemPercent
      [] sortBy = "pid" -> a.PID < b.PID
      [] sortBy = "name" -> StrLess(ToLower(a.Name), ToLower(b.Name))
      [] sortBy = "time" -> a.CreateTime < b.CreateTime
      [] OTHER -> a.CPUPercent < b.CPUPercent

Less(sortBy, desc, a, b) ==
    LET less == CASE sortBy = "cpu" -> a.CPUPercent < b.CPUPercent
                  [] sortBy = "mem" -> a.MemPercent < b.MemPercent
                  [] sortBy = "pid" -> a.PID < b.PID
                  [] sortBy = "name" -> StrLess(ToLower(a.Name), ToLower(b.Name))
                  [] sortBy = "time" -> a.CreateTime < b.CreateTime
                  [] OTHER -> a.CPUPercent < b.CPUPercent
    IN IF desc THEN ~less ELSE less

Swap(s, i, j) == [s EXCEPT ![i] = s[j], ![j] = s[i]]

RECURSIVE Sink(_, _, _, _)
Sink(s, j, sortBy, desc) ==
    IF j > 1 /\ Less(sortBy, desc, s[j], s[j - 1])
    THEN Sink(Swap(s, j, j - 1), j - 1, sortBy, desc)
    ELSE s

RECURSIVE SortFrom(_, _, _, _)
SortFrom(s, i, sortBy, desc) ==
    IF i > Len(s) THEN s
    ELSE SortFrom(Sink(s, i, sortBy, desc), i + 1, sortBy, desc)

sortProcesses(procs, sortBy, desc) == SortFrom(procs, 2, sortBy, desc)

\* a cut one record short
Truncate_short(procs, topN) ==
    IF topN > 0 /\ Len(procs) >= topN THEN SubSeq(procs, 1, topN - 1) ELSE procs

\* if *topN > 0 && len(procs) > *topN { procs = procs[:*topN] }
Truncate(procs, topN) ==
    IF topN > 0 /\ Len(procs) > topN THEN SubSeq(procs, 1, topN) ELSE procs

----------------------------------------------------------------------------
(* The environment: flag values, process tables, terminal sizes, keys *)

NameNginx == <<78, 103, 105, 110, 120>>     \* "Nginx"
NameNode == <<110, 111, 100, 101>>          \* "node"
NameSh == <<115, 104>>                      \* "sh"
PatN == <<110>>                             \* "n"

Proc(pid, name, ok, ctime, cpu, mem) ==
    [Pid |-> pid, Name |-> name, NameOk |-> ok, CreateTime |-> ctime,
     CPU |-> cpu, Mem |-> mem]

TableA == << Proc(7, NameNode, TRUE, 300, 5, 120),
             Proc(3, NameNginx, TRUE, 100, 123, 245),
             Proc(9, NameSh, TRUE, 200, 0, 80) >>

TableB == << Proc(3, NameNginx, TRUE, 100, 40, 245),
             Proc(5, NameNode, FALSE, 0, 0, 0) >>

ProcTables == {TableA, TableB}

Flags(iv, pat, ex, sb, d, n) ==
    [interval |-> iv, pattern |-> pat, exact |-> ex, sortBy |-> sb,
     descOrder |-> d, topN |-> n]

\* the flag defaults; -p n -s pid -d=false -top 1 -n 1; -n 0; -n -1
CfgDefault == Flags(50, <<>>, FALSE, "cpu", TRUE, 0)
CfgFiltered == Flags(10, PatN, FALSE, "pid", FALSE, 1)

Configs == { CfgDefault,
             CfgFiltered,
             Flags(0, <<>>, FALSE, "cpu", TRUE, 0),
             Flags(-10, <<>>, FALSE, "cpu", TRUE, 0) }

TermSizes == { <<80, 24>>, <<120, 40>> }

PauseKeys == {112, 80, 32}      \* 'p', 'P', ' '
QuitKeys == {113, 81, 3}        \* 'q', 'Q', Ctrl+C
OtherKeys == {120}              \* 'x'
Keys == PauseKeys \cup QuitKeys \cup OtherKeys

NoCall == [f |-> "none"]

----------------------------------------------------------------------------
(* Initial state: the process image before main runs *)

ProgramInit ==
    /\ pc = [t \in Tasks |-> IF t = "main" THEN "m_check" ELSE "off"]
    /\ paused = 0
    /\ lastProcs = <<>>
    /\ lastTermWidth = 0
    /\ lastTermHeight = 0
    /\ displayMu = "free"
    /\ exitOnce = "idle"
    /\ sigChan = 0
    /\ key = 0
    /\ dProcs = [t \in DisplayTasks |-> <<>>]
    /\ dErr = [t \in DisplayTasks |-> FALSE]
    /\ dFirst = [t \in DisplayTasks |-> FALSE]
    /\ dResized = [t \in DisplayTasks |-> FALSE]
    /\ snap = [t \in ExitTasks |-> <<>>]
    /\ consoleMode = FALSE
    /\ rawMode = FALSE
    /\ altScreen = FALSE
    /\ exited = FALSE
    /\ exitCode = 0
    /\ teardownLog = <<>>
    /\ lastGood = <<<<>>, 0, 0>>
    /\ cycleFailed = FALSE
    /\ pausedAtKey = 0
    /\ tablesShown = 0

Init ==
    /\ cfg \in Configs
    /\ ProgramInit
    /\ pure = NoCall

----------------------------------------------------------------------------
(* main(): startup *)

Goto(t, label) == pc' = [pc EXCEPT ![t] = label]

\* a check that lets a zero interval through
MainCheck_strict ==
    /\ pc["main"] = "m_check"
    /\ ~exited
    /\ IF cfg.interval < 0
       THEN /\ exited' = TRUE
            /\ exitCode' = 1
            /\ UNCHANGED pc
       ELSE /\ Goto("main", "m_console")
            /\ UNCHANGED <<exited, exitCode>>
    /\ UNCHANGED <<cfg, paused, shared, displayMu, exitOnce, sigChan, key, dLocals,
                   snap, termVars, teardownLog, history, pure>>

\* if *interval <= 0 { fmt.Fprintln(os.Stderr, ...); os.Exit(1) }
MainCheck ==
    /\ pc["main"] = "m_check"
    /\ ~exited
    /\ IF cfg.interval <= 0
       THEN /\ exited' = TRUE
            /\ exitCode' = 1
            /\ UNCHANGED pc
       ELSE /\ Goto("main", "m_console")
            /\ UNCHANGED <<exited, exitCode>>
    /\ UNCHANGED <<cfg, paused, shared, displayMu, exitOnce, sigChan, key, dLocals,
                   snap, termVars, teardownLog, history, pure>>

\* setupConsole()
MainSetupConsole ==
    /\ pc["main"] = "m_console"
    /\ consoleMode' = TRUE
    /\ Goto("main", "m_raw")
    /\ UNCHANGED <<cfg, paused, shared, displayMu, exitOnce, sigChan, key, dLocals,
                   snap, rawMode, altScreen, exitVars, history, pure>>

\* enableRawInput()
MainEnableRaw ==
    /\ pc["main"] = "m_raw"
    /\ rawMode' = TRUE
    /\ Goto("main", "m_alt")
    /\ UNCHANGED <<cfg, paused, shared, displayMu, exitOnce, sigChan, key, dLocals,
                   snap, consoleMode, altScreen, exitVars, history, pure>>

\* fmt.Print("\033[?1049h")
MainEnterAlt ==
    /\ pc["main"] = "m_alt"
    /\ altScreen' = TRUE
    /\ Goto("main", "m_spawn")
    /\ UNCHANGED <<cfg, paused, shared, displayMu, exitOnce, sigChan, key, dLocals,
                   snap, consoleMode, rawMode, exitVars, history, pure>>

\* signal.Notify; go func() { <-sigChan ... }(); go func() { for { readKey ... } }();
\* then the first display(*pattern, *exact, true)
MainSpawn ==
    /\ pc["main"] = "m_spawn"
    /\ pc' = [pc EXCEPT !["main"] = "d_lock", !["sig"] = "s_wait", !["key"] = "k_read"]
    /\ dFirst' = [dFirst EXCEPT !["main"] = TRUE]
    /\ UNCHANGED <<cfg, paused, shared, displayMu, exitOnce, sigChan, key, dProcs, dErr,
                   dResized, snap, termVars, exitVars, history, pure>>

\* for range ticker.C { if atomic.LoadInt32(&paused) == 0 { display(..., false) } }
MainTick ==
    /\ pc["main"] = "m_tick"
    /\ ~exited
    /\ IF paused = 0
       THEN /\ Goto("main", "d_lock")
            /\ dFirst' = [dFirst EXCEPT !["main"] = FALSE]
       ELSE UNCHANGED <<pc, dFirst>>
    /\ UNCHANGED <<cfg, paused, shared, displayMu, exitOnce, sigChan, key, dProcs, dErr,
                   dResized, snap, termVars, exitVars, history, pure>>

----------------------------------------------------------------------------
(* display(pattern, exactMatch, firstRun), called by goroutine t *)

\* a lock that is taken without waiting for its holder
DLock_noWait(t) ==
    /\ pc[t] = "d_lock"
    /\ ~exited
    /\ displayMu' = t
    /\ Goto(t, "d_get")
    /\ UNCHANGED <<cfg, paused, shared, exitOnce, sigChan, key, dLocals, snap,
                   termVars, exitVars, history, pure>>

\* displayMu.Lock(); defer displayMu.Unlock()
DLock(t) ==
    /\ pc[t] = "d_lock"
    /\ ~exited
    /\ displayMu = "free"
    /\ displayMu' = t
    /\ Goto(t, "d_get")
    /\ UNCHANGED <<cfg, paused, shared, exitOnce, sigChan, key, dLocals, snap,
                   termVars, exitVars, history, pure>>

\* procs, err := getProcesses(pattern, exactMatch), err == nil
DGetOk(t) ==
    /\ pc[t] = "d_get"
    /\ ~exited
    /\ \E table \in ProcTables :
          dProcs' = [dProcs EXCEPT ![t] = getProcesses(table, cfg.pattern, cfg.exact)]
    /\ Goto(t, "d_publish")
    /\ UNCHANGED <<cfg, paused, shared, displayMu, exitOnce, sigChan, key, dErr, dFirst,
                   dResized, snap, termVars, exitVars, history, pure>>

\* a failure path that overwrites the published snapshot
DGetErr_clobber(t) ==
    /\ pc[t] = "d_get"
    /\ ~exited
    /\ dErr' = [dErr EXCEPT ![t] = TRUE]
    /\ lastProcs' = <<>>
    /\ Goto(t, "d_unlock")
    /\ UNCHANGED <<cfg, paused, lastTermWidth, lastTermHeight, displayMu, exitOnce,
                   sigChan, key, dProcs, dFirst, dResized, snap, termVars, exitVars,
                   history, pure>>

\* a failure path that ends the process
DGetErr_fatal(t) ==
    /\ pc[t] = "d_get"
    /\ ~exited
    /\ dErr' = [dErr EXCEPT ![t] = TRUE]
    /\ exited' = TRUE
    /\ exitCode' = 1
    /\ Goto(t, "d_unlock")
    /\ UNCHANGED <<cfg, paused, shared, displayMu, exitOnce, sigChan, key, dProcs,
                   dFirst, dResized, snap, termVars, teardownLog, history, pure>>

\* err != nil: fmt.Printf("Error: %v\n", err); return
DGetErr(t) ==
    /\ pc[t] = "d_get"
    /\ ~exited
    /\ dErr' = [dErr EXCEPT ![t] = TRUE]
    /\ Goto(t, "d_unlock")
    /\ UNCHANGED <<cfg, paused, shared, displayMu, exitOnce, sigChan, key, dProcs,
                   dFirst, dResized, snap, termVars, exitVars, history, pure>>

\* sortProcesses; top-N; lastProcs = procs; getTerminalSize(); resize detection
DPublish(t) ==
    /\ pc[t] = "d_publish"
    /\ ~exited
    /\ \E sz \in TermSizes :
         LET procs == Truncate(sortProcesses(dProcs[t], cfg.sortBy, cfg.descOrder),
                               cfg.topN)
             terminalResized == sz[1] # lastTermWidth \/ sz[2] # lastTermHeight
             w == IF terminalResized THEN sz[1] ELSE lastTermWidth
             h == IF terminalResized THEN sz[2] ELSE lastTermHeight
         IN /\ dProcs' = [dProcs EXCEPT ![t] = procs]
            /\ lastProcs' = procs
            /\ lastTermWidth' = w
            /\ lastTermHeight' = h
            /\ dResized' = [dResized EXCEPT ![t] = terminalResized]
            /\ lastGood' = <<procs, w, h>>
    /\ Goto(t, "d_render")
    /\ UNCHANGED <<cfg, paused, displayMu, exitOnce, sigChan, key, dErr, dFirst, snap,
                   termVars, exitVars, cycleFailed, pausedAtKey, tablesShown, pure>>

\* clearScreen() if firstRun || terminalResized; header, rows, footer
DRender(t) ==
    /\ pc[t] = "d_render"
    /\ ~exited
    /\ Goto(t, "d_unlock")
    /\ UNCHANGED <<cfg, paused, shared, displayMu, exitOnce, sigChan, key, dLocals,
                   snap, termVars, exitVars, history, pure>>

\* a return that releases the mutex only on the success path
DUnlock_onlyOnSuccess(t) ==
    /\ pc[t] = "d_unlock"
    /\ ~exited
    /\ displayMu' = IF dErr[t] THEN displayMu ELSE "free"
    /\ dProcs' = [dProcs EXCEPT ![t] = <<>>]
    /\ dErr' = [dErr EXCEPT ![t] = FALSE]
    /\ dFirst' = [dFirst EXCEPT ![t] = FALSE]
    /\ dResized' = [dResized EXCEPT ![t] = FALSE]
    /\ IF t = "main"
       THEN /\ Goto(t, "m_tick")
            /\ cycleFailed' = dErr[t]
            /\ UNCHANGED pausedAtKey
       ELSE /\ Goto(t, "k_read")
            /\ pausedAtKey' = 0
            /\ UNCHANGED cycleFailed
    /\ UNCHANGED <<cfg, paused, shared, exitOnce, sigChan, key, snap, termVars, exitVars,
                   lastGood, tablesShown, pure>>

\* return: the deferred displayMu.Unlock() runs; control goes back to the caller's loop
DUnlock(t) ==
    /\ pc[t] = "d_unlock"
    /\ ~exited
    /\ displayMu' = "free"
    /\ dProcs' = [dProcs EXCEPT ![t] = <<>>]
    /\ dErr' = [dErr EXCEPT ![t] = FALSE]
    /\ dFirst' = [dFirst EXCEPT ![t] = FALSE]
    /\ dResized' = [dResized EXCEPT ![t] = FALSE]
    /\ IF t = "main"
       THEN /\ Goto(t, "m_tick")
            /\ cycleFailed' = dErr[t]
            /\ UNCHANGED pausedAtKey
       ELSE /\ Goto(t, "k_read")
            /\ pausedAtKey' = 0
            /\ UNCHANGED cycleFailed
    /\ UNCHANGED <<cfg, paused, shared, exitOnce, sigChan, key, snap, termVars, exitVars,
                   lastGood, tablesShown, pure>>

----------------------------------------------------------------------------
(* The key listener goroutine *)

\* key, ok := readKey() with ok; a failed read sleeps 100ms and retries, which
\* changes nothing
KeyRead ==
    /\ pc["key"] = "k_read"
    /\ ~exited
    /\ \E k \in Keys : key' = k
    /\ pausedAtKey' = paused
    /\ Goto("key", "k_switch")
    /\ UNCHANGED <<cfg, paused, shared, displayMu, exitOnce, sigChan, dLocals, snap,
                   termVars, exitVars, lastGood, cycleFailed, tablesShown, pure>>

\* a switch whose default case toggles the pause flag
KeyIgnore_toggle ==
    /\ pc["key"] = "k_switch"
    /\ ~exited
    /\ key \notin (PauseKeys \cup QuitKeys)
    /\ key' = 0
    /\ pausedAtKey' = 0
    /\ paused' = 1 - paused
    /\ Goto("key", "k_read")
    /\ UNCHANGED <<cfg, shared, displayMu, exitOnce, sigChan, dLocals, snap,
                   termVars, exitVars, lastGood, cycleFailed, tablesShown, pure>>

\* switch key: no case matches
KeyIgnore ==
    /\ pc["key"] = "k_switch"
    /\ ~exited
    /\ key \notin (PauseKeys \cup QuitKeys)
    /\ key' = 0
    /\ pausedAtKey' = 0
    /\ Goto("key", "k_read")
    /\ UNCHANGED <<cfg, paused, shared, displayMu, exitOnce, sigChan, dLocals, snap,
                   termVars, exitVars, lastGood, cycleFailed, tablesShown, pure>>

\* a pause key that always sets the flag
KeyPauseCAS_setOnly ==
    /\ pc["key"] = "k_switch"
    /\ ~exited
    /\ key \in PauseKeys
    /\ key' = 0
    /\ paused' = 1
    /\ Goto("key", "k_p_lock")
    /\ UNCHANGED <<cfg, shared, displayMu, exitOnce, sigChan, dLocals, snap,
                   termVars, exitVars, history, pure>>

\* case 'p', 'P', ' ': if atomic.CompareAndSwapInt32(&paused, 0, 1) { ... } else { ... }
KeyPauseCAS ==
    /\ pc["key"] = "k_switch"
    /\ ~exited
    /\ key \in PauseKeys
    /\ key' = 0
    /\ IF paused = 0
       THEN /\ paused' = 1
            /\ Goto("key", "k_p_lock")
       ELSE /\ UNCHANGED paused
            /\ Goto("key", "k_r_store")
    /\ UNCHANGED <<cfg, shared, displayMu, exitOnce, sigChan, dLocals, snap,
                   termVars, exitVars, history, pure>>

\* displayMu.Lock()
KeyPauseLock ==
    /\ pc["key"] = "k_p_lock"
    /\ ~exited
    /\ displayMu = "free"
    /\ displayMu' = "key"
    /\ Goto("key", "k_p_read")
    /\ UNCHANGED <<cfg, paused, shared, exitOnce, sigChan, key, dLocals, snap,
                   termVars, exitVars, history, pure>>

\* a pause that keeps the mutex while it prints
KeyPauseRead_keepLock ==
    /\ pc["key"] = "k_p_read"
    /\ ~exited
    /\ displayMu = "key"
    /\ snap' = [snap EXCEPT !["key"] = lastProcs]
    /\ Goto("key", "k_p_leave")
    /\ UNCHANGED <<cfg, paused, shared, displayMu, exitOnce, sigChan, key, dLocals,
                   termVars, exitVars, history, pure>>

\* snapshot := lastProcs; displayMu.Unlock()
KeyPauseRead ==
    /\ pc["key"] = "k_p_read"
    /\ ~exited
    /\ displayMu = "key"
    /\ snap' = [snap EXCEPT !["key"] = lastProcs]
    /\ displayMu' = "free"
    /\ Goto("key", "k_p_leave")
    /\ UNCHANGED <<cfg, paused, shared, exitOnce, sigChan, key, dLocals,
                   termVars, exitVars, history, pure>>

\* fmt.Print("\033[?1049l")
KeyPauseLeave ==
    /\ pc["key"] = "k_p_leave"
    /\ ~exited
    /\ altScreen' = FALSE
    /\ Goto("key", "k_p_print")
    /\ tablesShown' = 0
    /\ UNCHANGED <<cfg, paused, shared, displayMu, exitOnce, sigChan, key, dLocals, snap,
                   consoleMode, rawMode, exitVars, lastGood, cycleFailed, pausedAtKey, pure>>

\* printPlainSnapshot(snapshot)
KeyPausePrint ==
    /\ pc["key"] = "k_p_print"
    /\ ~exited
    /\ Goto("key", "k_p_banner")
    /\ tablesShown' = tablesShown + 1
    /\ UNCHANGED <<cfg, paused, shared, displayMu, exitOnce, sigChan, key, dLocals, snap,
                   termVars, exitVars, lastGood, cycleFailed, pausedAtKey, pure>>

\* the PAUSED line; end of the loop body
KeyPauseBanner ==
    /\ pc["key"] = "k_p_banner"
    /\ ~exited
    /\ pausedAtKey' = 0
    /\ snap' = [snap EXCEPT !["key"] = <<>>]
    /\ Goto("key", "k_read")
    /\ UNCHANGED <<cfg, paused, shared, displayMu, exitOnce, sigChan, key, dLocals,
                   termVars, exitVars, lastGood, cycleFailed, tablesShown, pure>>

\* atomic.StoreInt32(&paused, 0)
KeyResumeStore ==
    /\ pc["key"] = "k_r_store"
    /\ ~exited
    /\ paused' = 0
    /\ Goto("key", "k_r_enter")
    /\ UNCHANGED <<cfg, shared, displayMu, exitOnce, sigChan, key, dLocals, snap,
                   termVars, exitVars, history, pure>>

\* a resume that renders as the ticker does, display(*pattern, *exact, false)
KeyResumeEnter_noFirstRun ==
    /\ pc["key"] = "k_r_enter"
    /\ ~exited
    /\ altScreen' = TRUE
    /\ dFirst' = [dFirst EXCEPT !["key"] = FALSE]
    /\ Goto("key", "d_lock")
    /\ tablesShown' = 0
    /\ UNCHANGED <<cfg, paused, shared, displayMu, exitOnce, sigChan, key, dProcs, dErr,
                   dResized, snap, consoleMode, rawMode, exitVars, lastGood, cycleFailed,
                   pausedAtKey, pure>>

\* fmt.Print("\033[?1049h"); display(*pattern, *exact, true)
KeyResumeEnter ==
    /\ pc["key"] = "k_r_enter"
    /\ ~exited
    /\ altScreen' = TRUE
    /\ dFirst' = [dFirst EXCEPT !["key"] = TRUE]
    /\ Goto("key", "d_lock")
    /\ tablesShown' = 0
    /\ UNCHANGED <<cfg, paused, shared, displayMu, exitOnce, sigChan, key, dProcs, dErr,
                   dResized, snap, consoleMode, rawMode, exitVars, lastGood, cycleFailed,
                   pausedAtKey, pure>>

\* case 'q', 'Q', 3: handleExit()
KeyQuit ==
    /\ pc["key"] = "k_switch"
    /\ ~exited
    /\ key \in QuitKeys
    /\ key' = 0
    /\ Goto("key", "x_once")
    /\ UNCHANGED <<cfg, paused, shared, displayMu, exitOnce, sigChan, dLocals, snap,
                   termVars, exitVars, history, pure>>

----------------------------------------------------------------------------
(* The signal listener goroutine and the operating system's signal delivery *)

\* SIGINT or SIGTERM is delivered: signal.Notify does a non-blocking send on the
\* 1-buffered channel, so a signal that finds the buffer full is dropped
SignalArrive ==
    /\ pc["sig"] # "off"
    /\ ~exited
    /\ sigChan = 0
    /\ sigChan' = 1
    /\ UNCHANGED <<cfg, pc, paused, shared, displayMu, exitOnce, key, dLocals, snap,
                   termVars, exitVars, history, pure>>

\* <-sigChan; handleExit()
SigRecv ==
    /\ pc["sig"] = "s_wait"
    /\ ~exited
    /\ sigChan = 1
    /\ sigChan' = 0
    /\ Goto("sig", "x_once")
    /\ UNCHANGED <<cfg, paused, shared, displayMu, exitOnce, key, dLocals, snap,
                   termVars, exitVars, history, pure>>

----------------------------------------------------------------------------
(* handleExit(), called by goroutine t *)

Log(step) == teardownLog' = Append(teardownLog, step)

\* a latch that lets every caller in
ExitOnce_noLatch(t) ==
    /\ pc[t] = "x_once"
    /\ ~exited
    /\ exitOnce' = t
    /\ Goto(t, "x_raw")
    /\ UNCHANGED <<cfg, paused, shared, displayMu, sigChan, key, dLocals, snap,
                   termVars, exitVars, history, pure>>

\* exitOnce.Do(func() {...}): the first caller runs the function; a later caller
\* waits for the first call to return, which it never does (it ends in os.Exit)
ExitOnce(t) ==
    /\ pc[t] = "x_once"
    /\ ~exited
    /\ IF exitOnce = "idle"
       THEN /\ exitOnce' = t
            /\ Goto(t, "x_raw")
       ELSE /\ UNCHANGED exitOnce
            /\ Goto(t, "x_wait")
    /\ UNCHANGED <<cfg, paused, shared, displayMu, sigChan, key, dLocals, snap,
                   termVars, exitVars, history, pure>>

\* disableRawInput()
ExitRaw(t) ==
    /\ pc[t] = "x_raw"
    /\ ~exited
    /\ rawMode' = FALSE
    /\ Log("disableRawInput")
    /\ Goto(t, "x_console")
    /\ UNCHANGED <<cfg, paused, shared, displayMu, exitOnce, sigChan, key, dLocals, snap,
                   consoleMode, altScreen, exited, exitCode, history, pure>>

\* restoreConsole()
ExitConsole(t) ==
    /\ pc[t] = "x_console"
    /\ ~exited
    /\ consoleMode' = FALSE
    /\ Log("restoreConsole")
    /\ Goto(t, "x_reset")
    /\ UNCHANGED <<cfg, paused, shared, displayMu, exitOnce, sigChan, key, dLocals, snap,
                   rawMode, altScreen, exited, exitCode, history, pure>>

\* fmt.Print("\033[0m")
ExitReset(t) ==
    /\ pc[t] = "x_reset"
    /\ ~exited
    /\ Log("resetStyle")
    /\ Goto(t, "x_load")
    /\ UNCHANGED <<cfg, paused, shared, displayMu, exitOnce, sigChan, key, dLocals, snap,
                   termVars, exited, exitCode, history, pure>>

\* if atomic.LoadInt32(&paused) == 0 { ... }
ExitLoad(t) ==
    /\ pc[t] = "x_load"
    /\ ~exited
    /\ Goto(t, IF paused = 0 THEN "x_lock" ELSE "x_msg")
    /\ UNCHANGED <<cfg, paused, shared, displayMu, exitOnce, sigChan, key, dLocals, snap,
                   termVars, exitVars, history, pure>>

\* displayMu.Lock()
ExitLock(t) ==
    /\ pc[t] = "x_lock"
    /\ ~exited
    /\ displayMu = "free"
    /\ displayMu' = t
    /\ Goto(t, "x_read")
    /\ UNCHANGED <<cfg, paused, shared, exitOnce, sigChan, key, dLocals, snap,
                   termVars, exitVars, history, pure>>

\* snapshot := lastProcs; displayMu.Unlock()
ExitRead(t) ==
    /\ pc[t] = "x_read"
    /\ ~exited
    /\ displayMu = t
    /\ snap' = [snap EXCEPT ![t] = lastProcs]
    /\ displayMu' = "free"
    /\ Goto(t, "x_leave")
    /\ UNCHANGED <<cfg, paused, shared, exitOnce, sigChan, key, dLocals,
                   termVars, exitVars, history, pure>>

\* fmt.Print("\033[?1049l")
ExitLeave(t) ==
    /\ pc[t] = "x_leave"
    /\ ~exited
    /\ altScreen' = FALSE
    /\ Log("leaveAltScreen")
    /\ Goto(t, "x_print")
    /\ tablesShown' = 0
    /\ UNCHANGED <<cfg, paused, shared, displayMu, exitOnce, sigChan, key, dLocals, snap,
                   consoleMode, rawMode, exited, exitCode, lastGood, cycleFailed,
                   pausedAtKey, pure>>

\* printPlainSnapshot(snapshot)
ExitPrint(t) ==
    /\ pc[t] = "x_print"
    /\ ~exited
    /\ snap' = [snap EXCEPT ![t] = <<>>]
    /\ Log("printSnapshot")
    /\ Goto(t, "x_msg")
    /\ tablesShown' = tablesShown + 1
    /\ UNCHANGED <<cfg, paused, shared, displayMu, exitOnce, sigChan, key, dLocals,
                   termVars, exited, exitCode, lastGood, cycleFailed, pausedAtKey, pure>>

\* fmt.Println("WatchProc terminated.")
ExitMsg(t) ==
    /\ pc[t] = "x_msg"
    /\ ~exited
    /\ Log("terminated")
    /\ Goto(t, "x_exit")
    /\ UNCHANGED <<cfg, paused, shared, displayMu, exitOnce, sigChan, key, dLocals, snap,
                   termVars, exited, exitCode, history, pure>>

\* os.Exit(0)
ExitProcess(t) ==
    /\ pc[t] = "x_exit"
    /\ ~exited
    /\ exited' = TRUE
    /\ exitCode' = 0
    /\ Log("exit")
    /\ UNCHANGED <<cfg, pc, paused, shared, displayMu, exitOnce, sigChan, key, dLocals,
                   snap, termVars, history, pure>>

----------------------------------------------------------------------------
(* The program *)

MainStep ==
    \/ MainCheck
    \/ MainSetupConsole
    \/ MainEnableRaw
    \/ MainEnterAlt
    \/ MainSpawn
    \/ MainTick

DisplayStep(t) ==
    \/ DLock(t)
    \/ DGetOk(t)
    \/ DGetErr(t)
    \/ DPublish(t)
    \/ DRender(t)
    \/ DUnlock(t)

KeyStep ==
    \/ KeyIgnore
    \/ KeyPauseCAS
    \/ KeyPauseLock
    \/ KeyPauseRead
    \/ KeyPauseLeave
    \/ KeyPausePrint
    \/ KeyPauseBanner
    \/ KeyResumeStore
    \/ KeyResumeEnter
    \/ KeyQuit

HandleExit(t) ==
    \/ ExitOnce(t)
    \/ ExitRaw(t)
    \/ ExitConsole(t)
    \/ ExitReset(t)
    \/ ExitLoad(t)
    \/ ExitLock(t)
    \/ ExitRead(t)
    \/ ExitLeave(t)
    \/ ExitPrint(t)
    \/ ExitMsg(t)
    \/ ExitProcess(t)

Next ==
    \/ MainStep
    \/ \E t \in DisplayTasks : DisplayStep(t)
    \/ KeyRead
    \/ KeyStep
    \/ SignalArrive
    \/ SigRecv
    \/ \E t \in ExitTasks : HandleExit(t)

Spec == Init /\ [][Next]_vars

----------------------------------------------------------------------------
(* calcColWidths applied to every terminal width of a range *)

NegCols == 20
MaxTermCols == 200

LayoutFloor == fixedWidth + minName + minCreated + minUser

LayoutInit ==
    /\ cfg = CfgDefault
    /\ ProgramInit
    /\ \E w \in (0 - NegCols)..MaxTermCols :
          pure = [f |-> "calcColWidths", arg |-> w, done |-> FALSE, res |-> <<>>]

CalcLayout ==
    /\ pure.f = "calcColWidths"
    /\ ~pure.done
    /\ pure' = [pure EXCEPT !.done = TRUE, !.res = calcColWidths(pure.arg)]
    /\ UNCHANGED <<cfg, pc, paused, shared, displayMu, exitOnce, sigChan, key, dLocals,
                   snap, termVars, exitVars, history>>

LayoutNext == CalcLayout

LayoutSpec == LayoutInit /\ [][LayoutNext]_vars

LayoutDone == pure.f = "calcColWidths" /\ pure.done

----------------------------------------------------------------------------
(* The snapshot pipeline of display() (getProcesses, sortProcesses, top-N)  *)
(* applied to every process table of a range, with every sort key and      *)
(* direction; the sorted result is also sorted with the direction flipped  *)
(* and flipped back                                                        *)

MaxProcs == 3
MaxTopN == 3

NameNodeCap == <<78, 111, 100, 101>>        \* "Node"
NameCron == <<99, 114, 111, 110>>           \* "cron"

\* the three processes of TableA, one that ties with "node" on cpu and, case
\* ignored, on name, and one whose name cannot be read
ProcUniverse == { Proc(7, NameNode, TRUE, 300, 5, 120),
                  Proc(3, NameNginx, TRUE, 100, 123, 245),
                  Proc(9, NameSh, TRUE, 200, 0, 80),
                  Proc(4, NameNodeCap, TRUE, 400, 5, 60),
                  Proc(5, NameCron, FALSE, 0, 0, 0) }

\* process tables: up to MaxProcs different processes in any order
TablesUpTo(n) ==
    UNION { { t \in [1..k -> ProcUniverse] :
                \A i, j \in 1..k : i # j => t[i] # t[j] } : k \in 0..n }

SortKeys == {"cpu", "mem", "pid", "name", "time"}
Patterns == {<<>>, PatN, NameNode}

PipelineInit ==
    /\ cfg = CfgDefault
    /\ ProgramInit
    /\ \E table \in TablesUpTo(MaxProcs), pat \in Patterns, ex \in BOOLEAN,
          sb \in SortKeys, d \in BOOLEAN, n \in 0..MaxTopN :
          pure = [f |-> "pipeline", table |-> table, pattern |-> pat, exact |-> ex,
                  sortBy |-> sb, desc |-> d, topN |-> n, done |-> FALSE,
                  matched |-> <<>>, sorted |-> <<>>, snapshot |-> <<>>,
                  flipped |-> <<>>, back |-> <<>>]

RunPipeline ==
    /\ pure.f = "pipeline"
    /\ ~pure.done
    /\ LET matched == getProcesses(pure.table, pure.pattern, pure.exact)
           sorted == sortProcesses(matched, pure.sortBy, pure.desc)
           flipped == sortProcesses(sorted, pure.sortBy, ~pure.desc)
       IN pure' = [pure EXCEPT !.done = TRUE,
                               !.matched = matched,
                               !.sorted = sorted,
                               !.snapshot = Truncate(sorted, pure.topN),
                               !.flipped = flipped,
                               !.back = sortProcesses(flipped, pure.sortBy, pure.desc)]
    /\ UNCHANGED <<cfg, pc, paused, shared, displayMu, exitOnce, sigChan, key, dLocals,
                   snap, termVars, exitVars, history>>

PipelineNext == RunPipeline

PipelineSpec == PipelineInit /\ [][PipelineNext]_vars

PipelineDone == pure.f = "pipeline" /\ pure.done

----------------------------------------------------------------------------
(* calcColWidths followed by printHeader, as display() calls them, for a    *)
(* range of terminal widths, elapsed times, patterns and counts            *)

\* a pattern of n letters
PatOfLen(n) == [i \in 1..n |-> 110]

ElapsedSamples == {5, 75, 3725, 360000}
PatternLens == {0, 1, 6, 30, 60, 90}
CountSamples == {0, 3, 120}
IntervalSamples == {50, 1200}

HeaderInit ==
    /\ cfg = CfgDefault
    /\ ProgramInit
    /\ \E cols \in 0..MaxTermCols, d \in ElapsedSamples, n \in PatternLens,
          c \in CountSamples, iv \in IntervalSamples :
          pure = [f |-> "printHeader", termCols |-> cols, elapsed |-> d,
                  pattern |-> PatOfLen(n), interval |-> iv, count |-> c,
                  done |-> FALSE, res |-> [variant |-> 0, title |-> <<>>, rule |-> 0]]

\* cw := calcColWidths(width); printHeader(pattern, *interval, len(procs), cw)
RenderHeader ==
    /\ pure.f = "printHeader"
    /\ ~pure.done
    /\ pure' = [pure EXCEPT !.done = TRUE,
                            !.res = printHeader(pure.pattern, pure.interval, pure.count,
                                                calcColWidths(pure.termCols), pure.elapsed)]
    /\ UNCHANGED <<cfg, pc, paused, shared, displayMu, exitOnce, sigChan, key, dLocals,
                   snap, termVars, exitVars, history>>

HeaderNext == RenderHeader

HeaderSpec == HeaderInit /\ [][HeaderNext]_vars

HeaderDone == pure.f = "printHeader" /\ pure.done

----------------------------------------------------------------------------
(* Session state, as the pause flag plus the termination latch *)

Terminating == exitOnce # "idle"
Paused == paused = 1 /\ ~Terminating
Running == paused = 0 /\ ~Terminating

\* positions inside the once-function of handleExit
TeardownPcs == {"x_raw", "x_console", "x_reset", "x_load", "x_lock", "x_read",
                "x_leave", "x_print", "x_msg", "x_exit"}

\* positions of the pause branch after the CAS and before the snapshot is printed
PausePrinting == {"k_p_lock", "k_p_read", "k_p_leave", "k_p_print"}

\* positions of display()
DisplayPcs == {"d_lock", "d_get", "d_publish", "d_render", "d_unlock"}

\* positions at which a goroutine is between displayMu.Lock() and Unlock()
CriticalPcs == {"d_get", "d_publish", "d_render", "d_unlock", "k_p_read", "x_read"}

\* positions whose step writes to the terminal
OutputPcs == {"d_render", "k_p_leave", "k_p_print", "k_p_banner", "k_r_enter",
              "x_reset", "x_leave", "x_print", "x_msg"}

\* goroutine t takes the step at position label
StepAt(t, label) == pc[t] = label /\ pc'[t] # label

\* a display() call writes its frame
RenderStep(t) == StepAt(t, "d_render")

----------------------------------------------------------------------------
(* Fair scheduling: every goroutine that can take a step eventually takes   *)
(* it, a goroutine waiting for displayMu eventually gets it (sync.Mutex    *)
(* hands the lock to a starving waiter), and getProcesses returns. Each    *)
(* goroutine is sequential, so fairness is stated per goroutine. Key       *)
(* presses and signals are the environment's and may never come.           *)

MainProc == MainStep \/ DisplayStep("main")
KeyProc == KeyStep \/ DisplayStep("key") \/ HandleExit("key")
SigProc == SigRecv \/ HandleExit("sig")

Fairness ==
    /\ SF_vars(MainProc)
    /\ SF_vars(KeyProc)
    /\ SF_vars(SigProc)

FairInit ==
    /\ cfg = CfgFiltered
    /\ ProgramInit
    /\ pure = NoCall

FairSpec == FairInit /\ [][Next]_vars /\ Fairness

----------------------------------------------------------------------------
(* Claims *)

\* C1: whatever triggers arrive and however the key listener and the signal
\* listener interleave, each side effect of the teardown in handleExit happens
\* at most once, only the goroutine that won exitOnce is ever inside the
\* teardown, and no side effect happens before the latch is taken.
C1_TeardownExactlyOnce ==
    /\ \A i, j \in 1..Len(teardownLog) : i # j => teardownLog[i] # teardownLog[j]
    /\ \A t \in ExitTasks : pc[t] \in TeardownPcs => exitOnce = t
    /\ exitOnce = "idle" => teardownLog = <<>>
    /\ exited /\ exitCode = 0 =>
          /\ Len(teardownLog) >= 5
          /\ teardownLog[Len(teardownLog)] = "exit"

\* both listeners called handleExit; one ran the teardown to the end, the other
\* found the latch taken
C1_Witness ==
    /\ exited
    /\ exitCode = 0
    /\ \E t \in ExitTasks : pc[t] = "x_wait"

\* C2: whenever the process has exited through the teardown, the last
\* alternate-screen escape written is the leave sequence.
C2_ExitOutsideAltScreen == (exited /\ exitCode = 0) => ~altScreen

\* C3: once a pause has set the flag and printed its snapshot, and until the
\* flag is cleared again, the ticker's display(..., false) draws no frame.
C3_NoPeriodicRenderWhilePaused ==
    [][ (pc["main"] = "d_render" /\ pc'["main"] = "d_unlock" /\ ~dFirst["main"])
          => ~(paused = 1 /\ pc["key"] \notin PausePrinting) ]_vars

\* C4: a pause key read while the flag is 0 leaves it 1 (Paused), a pause key
\* read while the flag is 1 leaves it 0 (Running), so the flag alternates over
\* the pause keys; a quit key in either state ends in Terminating.
C4_KeyTransitions ==
    /\ pc["key"] = "k_switch" => paused = pausedAtKey
    /\ pc["key"] \in (PausePrinting \cup {"k_p_banner"}) =>
          pausedAtKey = 0 /\ paused = 1
    /\ pc["key"] = "k_r_store" => pausedAtKey = 1 /\ paused = 1
    /\ (pc["key"] = "k_r_enter" \/ pc["key"] \in DisplayPcs) =>
          pausedAtKey = 1 /\ paused = 0
    /\ pc["key"] \in (TeardownPcs \cup {"x_wait"}) => Terminating

\* a pause key pressed in Paused has put the session back to Running
C4_Witness ==
    /\ pc["key"] = "k_r_enter"
    /\ pausedAtKey = 1
    /\ paused = 0
    /\ Running

\* C5: under fair scheduling, a signal in sigChan or a quit key read by the
\* listener leads to the termination message followed by os.Exit(0).
C5_QuitLeadsToExit ==
    (sigChan = 1 \/ (pc["key"] = "k_switch" /\ key \in QuitKeys))
       ~> (/\ exited
           /\ exitCode = 0
           /\ Len(teardownLog) >= 2
           /\ teardownLog[Len(teardownLog) - 1] = "terminated"
           /\ teardownLog[Len(teardownLog)] = "exit")

\* the process has exited with status 0 from Paused
C5_Witness ==
    /\ exited
    /\ exitCode = 0
    /\ paused = 1
    /\ teardownLog[Len(teardownLog)] = "exit"

\* C6: the steps of a display() call whose metric read failed change none of
\* lastProcs, lastTermWidth, lastTermHeight, paused; the shared state stays
\* what the last successful cycle published, and that is the snapshot a pause
\* or the teardown reads.
C6_FailedCycleKeepsState ==
    [][ /\ (\E t \in DisplayTasks :
              \/ pc[t] = "d_get" /\ dErr'[t]
              \/ pc[t] = "d_unlock" /\ dErr[t] /\ pc'[t] # "d_unlock")
           => /\ lastProcs' = lastProcs
              /\ lastTermWidth' = lastTermWidth
              /\ lastTermHeight' = lastTermHeight
              /\ paused' = paused
              /\ <<lastProcs', lastTermWidth', lastTermHeight'>> = lastGood'
        /\ \A t \in ExitTasks :
              (pc[t] \in {"k_p_read", "x_read"} /\ pc'[t] \in {"k_p_leave", "x_leave"})
                 => snap'[t] = lastGood[1]
      ]_vars

\* after a failed cycle of the ticker loop, a pause prints the snapshot of the
\* last successful cycle
C6_Witness ==
    /\ cycleFailed
    /\ pc["key"] = "k_p_print"
    /\ snap["key"] # <<>>
    /\ snap["key"] = lastGood[1]

\* C7: a failed cycle returns to the ticker loop with displayMu released, a
\* tick in Running starts the next cycle, and the process ends only by the
\* interval check or by the teardown.
C7_LoopSurvivesFailure ==
    /\ pc["main"] = "m_tick" => displayMu # "main"
    /\ dErr["main"] => pc["main"] = "d_unlock" /\ displayMu = "main"
    /\ (cycleFailed /\ pc["main"] = "m_tick" /\ paused = 0 /\ ~exited)
          => ENABLED (MainTick /\ pc'["main"] = "d_lock")
    /\ exited => \/ exitCode = 1 /\ pc["main"] = "m_check"
                 \/ exitCode = 0 /\ Terminating

\* the cycle after a failed one is reading the metric source
C7_Witness ==
    /\ cycleFailed
    /\ pc["main"] = "d_get"
    /\ displayMu = "main"
    /\ ~exited

\* C8: with interval <= 0 main never gets past the check: no console setup, no
\* raw mode, no alternate screen, no listener, no teardown, and the exit
\* status is 1.
C8_BadIntervalFailsStartup ==
    cfg.interval <= 0 =>
       /\ pc["main"] = "m_check"
       /\ pc["key"] = "off"
       /\ pc["sig"] = "off"
       /\ ~consoleMode
       /\ ~rawMode
       /\ ~altScreen
       /\ exitOnce = "idle"
       /\ teardownLog = <<>>
       /\ exited => exitCode = 1
       /\ ~exited => ENABLED MainCheck

\* startup has failed with status 1
C8_Witness ==
    /\ cfg.interval <= 0
    /\ exited
    /\ exitCode = 1

\* C9: for every width from the floor up, name + created + user + 59 = total
\* with name in [12,30], created in [10,20], user >= 8.
C9_WidthsFillTotal ==
    (LayoutDone /\ pure.arg >= LayoutFloor) =>
       LET cw == pure.res
       IN /\ cw.name + cw.created + cw.user + fixedWidth = cw.total
          /\ cw.name >= minName /\ cw.name <= maxName
          /\ cw.created >= minCreated /\ cw.created <= maxCreated
          /\ cw.user >= minUser

\* C10: for every width below the floor, zero and negative ones included,
\* total is the floor and name, created, user are at least 12, 10, 8.
C10_ClampedToFloor ==
    (LayoutDone /\ pure.arg < LayoutFloor) =>
       LET cw == pure.res
       IN /\ cw.total = LayoutFloor
          /\ cw.name >= minName /\ cw.name > 0
          /\ cw.created >= minCreated /\ cw.created > 0
          /\ cw.user >= minUser /\ cw.user > 0

\* a negative width was clamped
C10_Witness ==
    /\ LayoutDone
    /\ pure.arg < 0
    /\ pure.res.total = LayoutFloor

\* C11: with top-N cap N > 0 the snapshot has exactly min(N, matched count)
\* records, with N = 0 all matched records, and in both cases they are the
\* leading records of the sorted sequence, in its order.
C11_TopN ==
    PipelineDone =>
       LET n == Len(pure.matched)
           k == Len(pure.snapshot)
       IN /\ pure.topN > 0 => k = (IF pure.topN < n THEN pure.topN ELSE n)
          /\ pure.topN = 0 => k = n
          /\ k <= Len(pure.sorted)
          /\ \A i \in 1..k : pure.snapshot[i] = pure.sorted[i]

\* three records matched and a cap of two kept the first two
C11_Witness ==
    /\ PipelineDone
    /\ pure.topN = 2
    /\ Len(pure.matched) = 3
    /\ Len(pure.snapshot) = 2
    /\ pure.snapshot = SubSeq(pure.sorted, 1, 2)

\* the field a sort key names, and the order sortProcesses compares it by
SortField(sortBy, r) ==
    CASE sortBy = "cpu" -> r.CPUPercent
      [] sortBy = "mem" -> r.MemPercent
      [] sortBy = "pid" -> r.PID
      [] sortBy = "name" -> r.Name
      [] sortBy = "time" -> r.CreateTime

KeyBefore(sortBy, a, b) ==
    IF sortBy = "name"
    THEN StrLess(ToLower(a.Name), ToLower(b.Name))
    ELSE SortField(sortBy, a) < SortField(sortBy, b)

\* the records are in strictly decreasing (desc) or strictly increasing key order
StrictlyOrdered(s, sortBy, desc) ==
    \A i \in 1..(Len(s) - 1) :
       IF desc THEN KeyBefore(sortBy, s[i + 1], s[i])
               ELSE KeyBefore(sortBy, s[i], s[i + 1])

SameRecords(s, t) ==
    /\ Len(s) = Len(t)
    /\ {s[i] : i \in 1..Len(s)} = {t[i] : i \in 1..Len(t)}

SortedBothWays ==
    /\ StrictlyOrdered(pure.sorted, pure.sortBy, pure.desc)
    /\ StrictlyOrdered(pure.flipped, pure.sortBy, ~pure.desc)
    /\ SameRecords(pure.sorted, pure.matched)
    /\ pure.back = pure.sorted

\* C12 as stated: whenever the records' values of the sort key field are
\* pairwise distinct, the result is strictly ordered in the chosen direction
\* and sorting it with the direction flipped and flipped back returns it.
C12_DistinctFieldsSortStrictly ==
    (/\ PipelineDone
     /\ \A i, j \in 1..Len(pure.matched) :
           i # j => SortField(pure.sortBy, pure.matched[i])
                       # SortField(pure.sortBy, pure.matched[j]))
       => SortedBothWays

\* C12 amended: the same, whenever no two records tie under the comparison
\* sortProcesses makes (for name: the names differ even with case ignored).
C12_NoTiesSortStrictly ==
    (/\ PipelineDone
     /\ \A i, j \in 1..Len(pure.matched) :
           i # j => \/ KeyBefore(pure.sortBy, pure.matched[i], pure.matched[j])
                    \/ KeyBefore(pure.sortBy, pure.matched[j], pure.matched[i]))
       => SortedBothWays

\* cpu percents 12.3, 0.5, 0.0, read in another order, sorted by cpu descending
C12_Witness ==
    /\ PipelineDone
    /\ pure.sortBy = "cpu"
    /\ pure.desc
    /\ [i \in 1..Len(pure.matched) |-> pure.matched[i].CPUPercent] = <<5, 123, 0>>
    /\ [i \in 1..Len(pure.sorted) |-> pure.sorted[i].CPUPercent] = <<123, 5, 0>>
    /\ pure.back = pure.sorted

\* the most detailed title text no longer than w, the minimal one when none is
MostDetailedFitting(w) ==
    LET fits == {v \in 1..4 : Len(Title(v, pure.pattern, pure.interval, pure.count,
                                        pure.elapsed)) <= w}
    IN IF fits = {} THEN 5 ELSE CHOOSE v \in fits : \A u \in fits : v <= u

TeardownFull == <<"disableRawInput", "restoreConsole", "resetStyle", "leaveAltScreen",
                  "printSnapshot", "terminated", "exit">>
TeardownShort == <<"disableRawInput", "restoreConsole", "resetStyle", "terminated", "exit">>

\* C14: a run that ended in the teardown performed its steps in the stated
\* order, with the alternate screen left and the snapshot printed or both
\* skipped, and the static table of the final view has been printed exactly
\* once since the alternate screen was last left.
C14_OrderedTeardownOneTable ==
    (exited /\ exitCode = 0) =>
       /\ teardownLog \in {TeardownFull, TeardownShort}
       /\ ~altScreen
       /\ tablesShown = 1

\* C15: once the teardown has started, no step of the key listener's pause or
\* resume branch changes the pause flag, leaves or re-enters the alternate
\* screen or prints a snapshot, and no display() call writes a frame.
C15_TerminatingAbsorbing ==
    [][ Terminating =>
           /\ paused' = paused
           /\ ~StepAt("key", "k_p_leave")
           /\ ~StepAt("key", "k_p_print")
           /\ ~StepAt("key", "k_r_enter")
           /\ \A t \in DisplayTasks : ~RenderStep(t)
      ]_vars

\* positions of the key listener between clearing the pause flag and the
\* frame its own display() call writes
ResumePending == {"k_r_enter", "d_lock", "d_get", "d_publish", "d_render"}

\* C16: before the teardown starts, no display() call writes a frame between
\* the resume's clearing of the pause flag and its alternate-screen enter
\* sequence, every frame written while the pause flag is clear goes to the
\* alternate screen, and a frame the ticker loop writes before the resume's
\* own frame clears the whole screen.
C16_ResumeRedrawsFirst ==
    [][ \A t \in DisplayTasks :
           (RenderStep(t) /\ ~Terminating) =>
              /\ pc["key"] # "k_r_enter"
              /\ paused = 0 => altScreen
              /\ (t = "main" /\ pc["key"] \in ResumePending)
                    => dFirst[t] \/ dResized[t]
      ]_vars

\* C17: at most one goroutine is between Lock and Unlock of displayMu; the
\* shared state is written only by the publishing step of the display() call
\* that holds displayMu; a pause or teardown reads lastProcs holding displayMu,
\* while no display() call is between its Lock and Unlock, and what it reads
\* is what the last successful cycle published.
C17_SharedStateUnderMutex ==
    [][ /\ \A t \in Tasks : pc'[t] \in CriticalPcs => displayMu' = t
        /\ \A t, u \in Tasks :
              (pc'[t] \in CriticalPcs /\ pc'[u] \in CriticalPcs) => t = u
        /\ shared' # shared
              => \E t \in DisplayTasks : displayMu = t /\ StepAt(t, "d_publish")
        /\ \A t \in ExitTasks :
              (StepAt(t, "k_p_read") \/ StepAt(t, "x_read"))
                 => /\ displayMu = t
                    /\ \A u \in DisplayTasks : pc[u] \notin DisplayPcs \ {"d_lock"}
                    /\ snap'[t] = lastProcs
                    /\ lastProcs = lastGood[1]
      ]_vars

\* the pause has read a published snapshot while the ticker loop's display()
\* call waits for displayMu
C17_Witness ==
    /\ pc["key"] = "k_p_leave"
    /\ pc["main"] = "d_lock"
    /\ snap["key"] # <<>>
    /\ snap["key"] = lastGood[1]
    /\ displayMu = "free"

\* C18 as stated: no goroutine reads the metric source or writes to the
\* terminal while it holds displayMu.
C18_NoIoUnderMutex ==
    [][ \A t \in Tasks :
           (StepAt(t, "d_get") \/ \E l \in OutputPcs : StepAt(t, l))
              => displayMu # t
      ]_vars

\* C18 amended: the pause and the teardown hold displayMu only for the step
\* that copies lastProcs, and write to the terminal without holding it; a
\* display() call holds displayMu from its metric read to its return, all its
\* terminal output included.
C18_ShortHeldOutsideDisplay ==
    [][ /\ \A t \in Tasks :
              (\E l \in OutputPcs \ {"d_render"} : StepAt(t, l)) => displayMu # t
        /\ \A t \in ExitTasks :
              (displayMu' = t /\ pc'[t] \notin DisplayPcs)
                 => pc'[t] \in {"k_p_read", "x_read"}
        /\ \A t \in DisplayTasks :
              (StepAt(t, "d_get") \/ StepAt(t, "d_publish") \/ RenderStep(t))
                 => displayMu = t /\ displayMu' = t
      ]_vars

\* the pause waits for displayMu while the ticker loop's display() call holds
\* it at the point of writing its frame
C18_Witness ==
    /\ pc["main"] = "d_render"
    /\ displayMu = "main"
    /\ pc["key"] = "k_p_lock"

\* C19 as stated: only the main goroutine executes display().
C19_OnlyMainRenders ==
    \A t \in Tasks \ {"main"} : pc[t] \notin DisplayPcs

\* C19 amended: the signal listener never executes display(); the key
\* listener executes it only in the resume branch of a pause key read while
\* paused, as a first-run call; the ticker loop's calls are made by the main
\* goroutine and only the first of them is a first-run call.
C19_KeyRendersOnlyOnResume ==
    /\ pc["sig"] \notin DisplayPcs
    /\ pc["key"] \in DisplayPcs => (dFirst["key"] /\ pausedAtKey = 1)
    /\ pc["key"] \in {"d_lock", "d_get"} => altScreen \/ Terminating \/ paused = 1

\* the key listener is writing the frame of a resume
C19_Witness ==
    /\ pc["key"] = "d_render"
    /\ dFirst["key"]
    /\ displayMu = "key"
    /\ paused = 0

\* C20: the step that handles a key other than the pause/resume and quit keys
\* changes neither the pause flag nor the shared state, the terminal, the
\* mutex or the termination latch, prints nothing, and returns the key
\* listener to reading keys.
C20_OtherKeyIgnored ==
    [][ (StepAt("key", "k_switch") /\ key \notin (PauseKeys \cup QuitKeys))
           => /\ pc'["key"] = "k_read"
              /\ UNCHANGED <<paused, shared, displayMu, exitOnce, sigChan, snap,
                             termVars, exitVars, tablesShown>>
              /\ \A t \in Tasks \ {"key"} : pc'[t] = pc[t]
      ]_vars

\* another key is about to be handled while the session is paused
C20_Witness ==
    /\ pc["key"] = "k_switch"
    /\ key \in OtherKeys
    /\ paused = 1
    /\ ~altScreen
    /\ ~Terminating

\* C21: whenever the pause or the teardown prints its static snapshot, no
\* display() call is between acquiring and releasing displayMu.
C21_SnapshotPrintOutsideRender ==
    [][ \A t \in ExitTasks :
           (StepAt(t, "k_p_print") \/ StepAt(t, "x_print"))
              => \A u \in DisplayTasks : pc[u] \notin DisplayPcs \ {"d_lock"}
      ]_vars

====
